---- MODULE Spec2Model ----
(***************************************************************************)
(* A model of auto_seeder.py: the AutoSeeder supervisor that watches a     *)
(* directory for descriptor (.torrent) files, keeps one launcher handle    *)
(* per descriptor path in running_seeders, probes the handles, and drains  *)
(* them from a signal handler.                                             *)
(*                                                                         *)
(* The main thread is a program counter `pc` over the statements of        *)
(* main(), start_all_existing(), monitor(), start_seeder(), stop_seeder()  *)
(* and check_seeder_status().  The signal handler runs on the same thread, *)
(* between two statements of whatever it interrupts; it never returns      *)
(* (sys.exit), so only the innermost handler invocation is ever active and *)
(* `depth` counts the invocations that have started.                       *)
(*                                                                         *)
(* The directory is read only by find_torrent_files: each scan draws what  *)
(* the directory holds at that moment.  The launcher handles and the       *)
(* process table are read only by check_seeder_status, so process exits    *)
(* are taken while it runs.  Locals that are not read again are dropped    *)
(* where the code last reads them.                                         *)
(***************************************************************************)
EXTENDS Integers, Sequences, FiniteSets, TLC

\* ------------------------------------------------------------------ bounds
\* Number of successful subprocess.Popen calls explored; past it Popen raises.
MaxSpawns == 2
\* Number of signals delivered (nested handler invocations) under SpecNested.
MaxSignals == 2
\* terminate() calls counted per handle by the main thread; the count saturates.
MaxTerm == 2
\* Length of the model names a client downloads.
MaxNameLen == 3

\* Descriptor paths, each given by the stem of its file name as a sequence of
\* characters.  "a.torrent" and "ba.torrent": the name of one file is found
\* inside the name of the other.
NestedNames == { <<"a">>, <<"b", "a">> }
\* "a_.torrent" and "a:.torrent": two files of one model name.
SameModelNames == { <<"a", "_">>, <<"a", ":">> }
NoPath == << >>

Modes == {"monitor", "hold", "status"}

VARIABLES
    mode,                \* args.status / args.start_existing_only / neither
    pc,                  \* statement the main thread is at
    phase,               \* which pass of main() the main thread is in
    exit_code,           \* -1 while the process runs, else its exit status
    running_seeders,     \* self.running_seeders: path -> Popen object
    monitored_torrents,  \* self.monitored_torrents
    running,             \* self.running
    current,             \* current_torrents / torrent_files of the last scan
    todo,                \* what the for loop in progress still iterates
    cur,                 \* torrent_file of the start_seeder/stop_seeder call
    proc,                \* start_seeder's local `process` before it is stored
    result,              \* return value of the start_seeder call in progress
    probed,              \* per path, what the latest check_seeder_status read
    procs,               \* the worker each Popen call launched, by handle
    depth,               \* signal handler invocations started
    hpc,                 \* statement the innermost handler invocation is at
    htodo,               \* list(self.running_seeders.keys()) still to stop
    hcur,                \* torrent_file of the handler's stop_seeder call
    snap,                \* handles in running_seeders when the handler began
    stopped,             \* the Popen objects the handler deleted (history)
    why,                 \* per path, why it has no entry (history, below)
    models_dir,          \* the directory a find_torrent_files call reads
    found,               \* what that call gave
    model_name,          \* the model a client downloads the descriptor of
    torrent_path,        \* the file download_torrent_file wrote for it
    resolved,            \* get_model_name_from_torrent of that file
    dir_names            \* the descriptors the watched directory ever holds

\* The descriptor paths of a run.
Paths == dir_names

vars == << dir_names, mode, pc, phase, exit_code, running_seeders,
           monitored_torrents, running, current, todo, cur, proc, result,
           probed, procs, depth, hpc, htodo, hcur, snap, stopped, why,
           models_dir, found, model_name, torrent_path, resolved >>

\* The variables of the calls examined on their own (SpecScan, SpecNames) and
\* the descriptors of the run: a program run leaves them as they are.
fnVars == << models_dir, found, model_name, torrent_path, resolved,
             dir_names >>

objVars  == << running_seeders, monitored_torrents, running >>
locVars  == << current, todo, cur, proc, result >>
sigVars  == << depth, hpc, htodo, hcur, snap, stopped >>
histVars == << why >>

\* History, read by no action.  why[p] says how path p last came to be without
\* an entry in running_seeders while its file was in the latest scan:
\*   "failed": Popen raised, nothing launched since
\*   "dead":   check_seeder_status removed the entry, nothing launched since
\*   "":       none of these (also once a scan no longer holds p)
Note(p, v) == [why EXCEPT ![p] = v]
Rescanned(scan) == [p \in Paths |-> IF p \notin scan THEN "" ELSE why[p]]

\* ------------------------------------------------------------- dictionaries
EmptyMap == [p \in {} |-> 0]

\* d[k] = v
Store(d, k, v) == [p \in DOMAIN d \cup {k} |-> IF p = k THEN v ELSE d[p]]

\* del d[k]
Delete(d, k) == [p \in DOMAIN d \ {k} |-> d[p]]

Handles == 1..Len(procs)
Tracked == {running_seeders[p].h : p \in DOMAIN running_seeders}

\* ------------------------------------------------------------ file names
Suffix(s, n) == SubSeq(s, Len(s) - n + 1, Len(s))

\* (a pattern anchored to the whole file name)
CmdlineMatches_Exact(p, q) == p = q

\* pgrep -f 'seeder.py.*<basename>': the worker launched for descriptor q runs
\* "python3 .../seeder.py --file <dir>/<q>.torrent"; the pattern built from p
\* is found in that command line when p's file name ends q's file name.
CmdlineMatches(p, q) == Len(p) <= Len(q) /\ Suffix(q, Len(p)) = p

\* Model names and paths are sequences of characters; a name is made of
\* letters, the tag separator, underscores and dots ("llama3.1:8b-q4_K_M").
\* "/" separates the components of a path and "torrent" stands for the
\* letters of the extension.
Chars == {"a", ":", "_", "."}

ModelNames == UNION {[1..n -> Chars] : n \in 1..MaxNameLen}

\* str.replace(old, new), for single characters
Replace(s, old, new) == [i \in 1..Len(s) |-> IF s[i] = old THEN new ELSE s[i]]

\* str.rfind(c) + 1
LastIndex(s, c) ==
    IF \E i \in 1..Len(s) : s[i] = c
    THEN CHOOSE i \in 1..Len(s) :
            s[i] = c /\ \A j \in (i + 1)..Len(s) : s[j] # c
    ELSE 0

\* os.path.join(a, b): an absolute b discards a
PathJoin(a, b) == IF Len(b) > 0 /\ b[1] = "/" THEN b ELSE a \o <<"/">> \o b

\* The client's output directory, which the seeder watches.
OutputDir == <<"models">>

\* client.py: os.path.join(output_dir, f"{model_name.replace(':', '_')}.torrent")
download_torrent_file(n) ==
    PathJoin(OutputDir, Replace(n, ":", "_") \o <<".", "torrent">>)

\* pathlib: Path(p).name, the last component
PathName(p) == SubSeq(p, LastIndex(p, "/") + 1, Len(p))

\* pathlib: Path(p).stem, the name up to its last dot when that dot is neither
\* its first nor its last character
Stem(p) ==
    LET name == PathName(p)
        i == LastIndex(name, ".")
    IN  IF 1 < i /\ i < Len(name) THEN SubSeq(name, 1, i - 1) ELSE name

\* filename = Path(torrent_file).stem; return filename.replace("_", ":")
get_model_name_from_torrent(p) == Replace(Stem(p), "_", ":")

\* The file of descriptor path p in the watched directory, and the model name
\* start_seeder prints for it (model_name, read by print() only).
FileOf(p) == PathJoin(OutputDir, p \o <<".", "torrent">>)
ModelOf(p) == get_model_name_from_torrent(FileOf(p))

\* ------------------------------------------------------------------- scan
\* What the watched directory is when a scan reads it: missing, or present
\* with some *.torrent files.
DirStates == {[exists |-> FALSE, files |-> {}]} \cup
             {[exists |-> TRUE, files |-> S] : S \in SUBSET Paths}

find_torrent_files(d) == IF ~d.exists THEN {} ELSE d.files

\* exists()/glob() return, or raise (OSError: the directory is unreadable).
ScanOutcomes == {"ok", "raise"}

\* (a scan without the exists() test, over a glob that raises on a missing
\* directory)
ScanRaises_NoTest(d, o) == o = "raise" \/ ~d.exists

\* The scan raises: glob() does, which a missing directory never reaches.
ScanRaises(d, o) == o = "raise" /\ d.exists

\* -------------------------------------------------------- worker processes
\* subprocess.Popen starts the osascript wrapper, which has Terminal run
\* seeder.py (the real worker) for the descriptor.  procs[h] is the real
\* worker of the h-th successful Popen call: its descriptor path and whether
\* it is in the process table.
NewProc(p) == [path |-> p, worker |-> TRUE]

\* The Popen object of handle h, as running_seeders holds it until the del:
\*   exited: the wrapper has exited (poll() is not None)
\*   tmain:  terminate() calls on it by the main thread (saturating at MaxTerm)
\*   tsig:   the handler invocations (by depth) that called terminate() on it
Popen(h) == [h |-> h, exited |-> FALSE, tmain |-> 0, tsig |-> {}]

\* Popen either returns a handle or raises (OSError: osascript missing, ...).
SpawnOutcomes == IF Len(procs) < MaxSpawns THEN {"ok", "raise"} ELSE {"raise"}

\* process.terminate() returns or raises.
TermOutcomes == {"ok", "raise"}

Min(a, b) == IF a < b THEN a ELSE b

\* process.terminate() on Popen object e, called at handler depth d (0: main
\* thread).  It signals the wrapper only; the real worker runs under Terminal.
Terminate(e, d) == IF d = 0 THEN [e EXCEPT !.tmain = Min(@ + 1, MaxTerm)]
                            ELSE [e EXCEPT !.tsig = @ \cup {d}]

\* terminate() calls Popen object e has received.
Terms(e) == e.tmain + Cardinality(e.tsig)

\* ---------------------------------------------------------------- pgrep
\* subprocess.run(['pgrep', ...], capture_output=True): it raises, or gives a
\* return code and whether stdout.strip() is non-empty.
PgrepMatch == [raised |-> FALSE, returncode |-> 0, stdout |-> TRUE]
PgrepNone  == [raised |-> FALSE, returncode |-> 1, stdout |-> FALSE]
PgrepError == [raised |-> FALSE, returncode |-> 2, stdout |-> FALSE]
PgrepRaise == [raised |-> TRUE, returncode |-> -1, stdout |-> FALSE]
NotRun     == [raised |-> FALSE, returncode |-> -1, stdout |-> FALSE]

\* The process table holds a seeder.py whose command line matches p's pattern.
ProcessFound(p) ==
    \E h \in Handles : procs[h].worker /\ CmdlineMatches(p, procs[h].path)

PgrepOutcomes(p) ==
    {PgrepRaise, PgrepError} \cup
    (IF ProcessFound(p) THEN {PgrepMatch} ELSE {PgrepNone})

\* process.poll()
Poll(e) == IF e.exited THEN "exited" ELSE "running"

\* result.returncode == 0 and result.stdout.strip(), inside try/except: pass
PgrepFound(r) == ~r.raised /\ r.returncode = 0 /\ r.stdout

\* (a probe without the pgrep fallback; a probe whose except clause continues)
IsDead_NoFallback(poll, r) == poll # "running"
IsDead_RaiseAlive(poll, r) == poll # "running" /\ ~PgrepFound(r) /\ ~r.raised

\* try: ... except Exception: pass -- no error of the query leaves the probe.
Uncaught(r) == FALSE

\* The entry is appended to dead_seeders.
IsDead(poll, r) == poll # "running" /\ ~PgrepFound(r)

DeadSeeders == {p \in DOMAIN probed : probed[p].dead}

\* ------------------------------------------------------------------ Init
\* No call is examined on its own.
Idle ==
    /\ models_dir = [exists |-> FALSE, files |-> {}]
    /\ found = {}
    /\ model_name = << >>
    /\ torrent_path = << >>
    /\ resolved = {}

\* The process has started and main() has not constructed the AutoSeeder.
NotStarted ==
    /\ mode \in Modes
    /\ pc = "construct"
    /\ phase = "start"
    /\ exit_code = -1
    /\ running_seeders = EmptyMap
    /\ monitored_torrents = {}
    /\ running = TRUE
    /\ current = {}
    /\ todo = {}
    /\ cur = NoPath
    /\ proc = 0
    /\ result = "none"
    /\ probed = EmptyMap
    /\ procs = << >>
    /\ depth = 0
    /\ hpc = "none"
    /\ htodo = {}
    /\ hcur = NoPath
    /\ snap = {}
    /\ stopped = EmptyMap
    /\ why = [p \in Paths |-> ""]

Init == dir_names = NestedNames /\ NotStarted /\ Idle

\* The main thread runs: no handler has started and the process has not exited.
Main == depth = 0 /\ exit_code = -1

\* (a main whose `except Exception` prints the error and returns)
Exit_Returns(code) == pc' = "exited" /\ exit_code' = 0

\* sys.exit(code), or main() returning (code 0)
Exit(code) == pc' = "exited" /\ exit_code' = code

\* ------------------------------------------------------------------ main()
\* AutoSeeder(...) inside main's try: it returns, or raises and main's
\* `except Exception` ends the process with sys.exit(1).
Construct ==
    /\ pc = "construct" /\ exit_code = -1
    /\ \E ok \in BOOLEAN :
          IF ok THEN pc' = "main" /\ exit_code' = exit_code
                ELSE Exit(1)
    /\ UNCHANGED << fnVars, mode, phase, objVars, locVars, probed, procs,
                    sigVars, histVars >>

\* (a status() that drops the entries whose handle has exited before it
\* prints them)
status_Prunes ==
    /\ Main /\ pc = "main" /\ mode = "status"
    /\ Exit(0)
    /\ running_seeders' =
          [p \in {q \in DOMAIN running_seeders : ~running_seeders[q].exited}
              |-> running_seeders[p]]
    /\ UNCHANGED << fnVars, mode, phase, monitored_torrents, running, locVars,
                    probed, procs, sigVars, histVars >>

\* if args.status: auto_seeder.status(); return
status ==
    /\ Main /\ pc = "main" /\ mode = "status"
    /\ Exit(0)
    /\ UNCHANGED << fnVars, mode, phase, objVars, locVars, probed, procs,
                    sigVars, histVars >>

\* Where main() goes after start_all_existing() returns.
AfterExisting == IF mode = "hold" THEN "chk_begin" ELSE "mon_head"
PhaseAfterExisting == IF mode = "hold" THEN "hold" ELSE "mon"

\* start_all_existing(): the scan, and the return when nothing is found.  A
\* scan that raises reaches main's `except Exception`: sys.exit(1).
start_all_existing ==
    /\ Main /\ pc = "main" /\ mode # "status"
    /\ \E o \in ScanOutcomes, d \in DirStates :
          IF ScanRaises(d, o)
          THEN /\ Exit(1)
               /\ UNCHANGED << phase, current, todo >>
          ELSE /\ current' = find_torrent_files(d)
               /\ todo' = find_torrent_files(d)
               /\ exit_code' = exit_code
               /\ IF find_torrent_files(d) = {}
                  THEN pc' = AfterExisting /\ phase' = PhaseAfterExisting
                  ELSE pc' = "sae_loop" /\ phase' = "sae"
    /\ UNCHANGED << fnVars, mode, objVars, cur, proc, result, probed, procs,
                    sigVars, histVars >>

\* for torrent_file in torrent_files: self.start_seeder(torrent_file) ...
\* (torrent_files is not read after the loop and is dropped with it)
ExistingNext ==
    /\ Main /\ pc = "sae_loop"
    /\ IF todo = {}
       THEN /\ pc' = AfterExisting /\ phase' = PhaseAfterExisting
            /\ current' = {}
            /\ UNCHANGED << todo, cur >>
       ELSE /\ \E p \in todo :
                 /\ cur' = p
                 /\ todo' = todo \ {p}
            /\ pc' = "ss_spawn"
            /\ UNCHANGED << phase, current >>
    /\ UNCHANGED << fnVars, mode, exit_code, objVars, proc, result,
                    probed, procs, sigVars, histVars >>

\* ------------------------------------------------------------ start_seeder
\* (a start_seeder without its guard)
AlreadyRunning_Never(p) == FALSE

\* (a guard on the model name instead of the path)
AlreadyRunning_ByName(p) ==
    \E q \in DOMAIN running_seeders : ModelOf(q) = ModelOf(p)

\* if torrent_file in self.running_seeders: return False
AlreadyRunning(p) == p \in DOMAIN running_seeders

\* (a start_seeder whose Popen call is outside any try: the error goes to the
\* caller's handler, main's in the initial pass and monitor's in a cycle)
start_seeder_spawn_NoExcept ==
    /\ Main /\ pc = "ss_spawn"
    /\ IF AlreadyRunning(cur)
       THEN /\ result' = "False"
            /\ pc' = "ss_ret"
            /\ UNCHANGED << proc, procs, why, exit_code >>
       ELSE \E o \in SpawnOutcomes :
               IF o = "raise"
               THEN /\ IF phase = "sae" THEN Exit(1)
                       ELSE pc' = "mon_exc" /\ exit_code' = exit_code
                    /\ why' = Note(cur, "failed")
                    /\ UNCHANGED << result, proc, procs >>
               ELSE /\ procs' = Append(procs, NewProc(cur))
                    /\ proc' = Len(procs) + 1
                    /\ pc' = "ss_record"
                    /\ UNCHANGED << result, why, exit_code >>
    /\ UNCHANGED << fnVars, mode, phase, objVars, current, todo,
                    cur, probed, sigVars >>

\* The guard, then subprocess.Popen(cmd, ...).
start_seeder_spawn ==
    /\ Main /\ pc = "ss_spawn"
    /\ IF AlreadyRunning(cur)
       THEN /\ result' = "False"
            /\ pc' = "ss_ret"
            /\ UNCHANGED << proc, procs, why >>
       ELSE \E o \in SpawnOutcomes :
               IF o = "raise"
               THEN /\ result' = "False"
                    /\ pc' = "ss_ret"
                    /\ why' = Note(cur, "failed")
                    /\ UNCHANGED << proc, procs >>
               ELSE /\ procs' = Append(procs, NewProc(cur))
                    /\ proc' = Len(procs) + 1
                    /\ pc' = "ss_record"
                    /\ UNCHANGED << result, why >>
    /\ UNCHANGED << fnVars, mode, phase, exit_code, objVars, current, todo,
                    cur, probed, sigVars >>

\* self.running_seeders[torrent_file] = process; time.sleep(2); return True
start_seeder_record ==
    /\ Main /\ pc = "ss_record"
    /\ running_seeders' = Store(running_seeders, cur, Popen(proc))
    /\ proc' = 0
    /\ result' = "True"
    /\ why' = Note(cur, "")
    /\ pc' = "ss_ret"
    /\ UNCHANGED << fnVars, mode, phase, exit_code, monitored_torrents,
                    running, current, todo, cur, probed, procs, sigVars >>

\* (a caller that adds the path only when start_seeder returned True)
AddMonitored_OnlyStarted ==
    /\ Main /\ pc = "ss_ret"
    /\ monitored_torrents' = IF result = "True"
                             THEN monitored_torrents \cup {cur}
                             ELSE monitored_torrents
    /\ cur' = NoPath
    /\ result' = "none"
    /\ pc' = IF phase = "sae" THEN "sae_loop" ELSE "mon_add"
    /\ UNCHANGED << fnVars, mode, phase, exit_code, running_seeders, running,
                    current, todo, proc, probed, procs, sigVars, histVars >>

\* Back in the caller: self.monitored_torrents.add(torrent_file)
AddMonitored ==
    /\ Main /\ pc = "ss_ret"
    /\ monitored_torrents' = monitored_torrents \cup {cur}
    /\ cur' = NoPath
    /\ result' = "none"
    /\ pc' = IF phase = "sae" THEN "sae_loop" ELSE "mon_add"
    /\ UNCHANGED << fnVars, mode, phase, exit_code, running_seeders, running,
                    current, todo, proc, probed, procs, sigVars, histVars >>

\* ---------------------------------------------------------------- monitor
\* while self.running: current_torrents = self.find_torrent_files().  With
\* self.running false the loop ends and monitor() calls stop_all_seeders().
\* A scan that raises reaches monitor's `except Exception`.
monitor_scan ==
    /\ Main /\ pc = "mon_head"
    /\ IF ~running
       THEN /\ phase' = "drain"
            /\ todo' = DOMAIN running_seeders
            /\ pc' = "mon_rm"
            /\ UNCHANGED << current, histVars >>
       ELSE \E o \in ScanOutcomes, d \in DirStates :
               IF ScanRaises(d, o)
               THEN /\ pc' = "mon_exc"
                    /\ UNCHANGED << phase, current, todo, histVars >>
               ELSE /\ current' = find_torrent_files(d)
                    /\ todo' = find_torrent_files(d)
                    /\ why' = Rescanned(find_torrent_files(d))
                    /\ pc' = "mon_add"
                    /\ phase' = phase
    /\ UNCHANGED << fnVars, mode, exit_code, objVars, cur, proc, result,
                    probed, procs, sigVars >>

\* (an except clause that gives up: the error reaches main's handler)
monitor_except_Fatal ==
    /\ Main /\ pc = "mon_exc"
    /\ Exit(1)
    /\ UNCHANGED << fnVars, mode, phase, objVars, locVars, probed,
                    procs, sigVars, histVars >>

\* except Exception as e: print(...); time.sleep(self.check_interval)
monitor_except ==
    /\ Main /\ pc = "mon_exc"
    /\ pc' = "mon_head"
    /\ UNCHANGED << fnVars, mode, phase, exit_code, objVars, locVars, probed,
                    procs, sigVars, histVars >>

\* for torrent_file in current_torrents:
\*     if torrent_file not in self.monitored_torrents: self.start_seeder(...)
\* and, the loop over, removed_torrents = self.monitored_torrents - current.
\* (the membership test inverted; the test made on running_seeders)
NewTorrents_Untracked == {p \in todo : p \notin DOMAIN running_seeders}

NewTorrents_Inverted == {p \in todo : p \in monitored_torrents}

NewTorrents == {p \in todo : p \notin monitored_torrents}

\* (removed_torrents taken to be all of monitored_torrents)
monitor_add_RemovesAll ==
    /\ Main /\ pc = "mon_add"
    /\ IF NewTorrents = {}
       THEN /\ todo' = monitored_torrents
            /\ pc' = "mon_rm"
            /\ cur' = cur
       ELSE /\ \E p \in NewTorrents :
                 /\ cur' = p
                 /\ todo' = todo \ {p}
            /\ pc' = "ss_spawn"
    /\ UNCHANGED << fnVars, mode, phase, exit_code, objVars, current, proc,
                    result, probed, procs, sigVars, histVars >>

monitor_add ==
    /\ Main /\ pc = "mon_add"
    /\ IF NewTorrents = {}
       THEN /\ todo' = monitored_torrents \ current
            /\ pc' = "mon_rm"
            /\ cur' = cur
       ELSE /\ \E p \in NewTorrents :
                 /\ cur' = p
                 /\ todo' = todo \ {p}
            /\ pc' = "ss_spawn"
    /\ UNCHANGED << fnVars, mode, phase, exit_code, objVars, current, proc,
                    result, probed, procs, sigVars, histVars >>

\* for torrent_file in removed_torrents: self.stop_seeder(torrent_file) ...
\* (and, in monitor's closing stop_all_seeders, the same loop over the keys,
\* after which monitor() and main() return).
monitor_remove ==
    /\ Main /\ pc = "mon_rm"
    /\ IF todo = {}
       THEN /\ IF phase = "drain"
               THEN Exit(0)
               ELSE pc' = "chk_begin" /\ exit_code' = exit_code
            /\ UNCHANGED << todo, cur >>
       ELSE /\ \E p \in todo :
                 /\ cur' = p
                 /\ todo' = todo \ {p}
            /\ pc' = "st_term"
            /\ exit_code' = exit_code
    /\ UNCHANGED << fnVars, mode, phase, objVars, current, proc, result,
                    probed, procs, sigVars, histVars >>

\* ------------------------------------------------------------- stop_seeder
\* (a stop_seeder without its try: the error of terminate() reaches monitor's
\* except clause)
stop_seeder_terminate_NoExcept ==
    /\ Main /\ pc = "st_term"
    /\ IF cur \notin DOMAIN running_seeders
       THEN pc' = "st_ret" /\ running_seeders' = running_seeders
       ELSE \E o \in TermOutcomes :
               /\ running_seeders' =
                      Store(running_seeders, cur,
                            Terminate(running_seeders[cur], 0))
               /\ pc' = IF o = "ok" THEN "st_del" ELSE "mon_exc"
    /\ UNCHANGED << fnVars, mode, phase, exit_code, monitored_torrents, running,
                    locVars, probed, procs, sigVars, histVars >>

\* if torrent_file in self.running_seeders: try: process.terminate()
\* (a raise goes to the except clause, past the del).
stop_seeder_terminate ==
    /\ Main /\ pc = "st_term"
    /\ IF cur \notin DOMAIN running_seeders
       THEN pc' = "st_ret" /\ running_seeders' = running_seeders
       ELSE \E o \in TermOutcomes :
               /\ running_seeders' =
                      Store(running_seeders, cur,
                            Terminate(running_seeders[cur], 0))
               /\ pc' = IF o = "ok" THEN "st_del" ELSE "st_ret"
    /\ UNCHANGED << fnVars, mode, phase, exit_code, monitored_torrents, running,
                    locVars, probed, procs, sigVars, histVars >>

\* del self.running_seeders[torrent_file]
stop_seeder_delete ==
    /\ Main /\ pc = "st_del"
    /\ running_seeders' = Delete(running_seeders, cur)
    /\ pc' = "st_ret"
    /\ UNCHANGED << fnVars, mode, phase, exit_code, monitored_torrents,
                    running, locVars, probed, procs, sigVars, histVars >>

\* Back in monitor's removal loop: self.monitored_torrents.remove(torrent_file)
RemoveMonitored ==
    /\ Main /\ pc = "st_ret"
    /\ monitored_torrents' = IF phase = "drain" THEN monitored_torrents
                             ELSE monitored_torrents \ {cur}
    /\ cur' = NoPath
    /\ pc' = "mon_rm"
    /\ UNCHANGED << fnVars, mode, phase, exit_code, running_seeders, running,
                    current, todo, proc, result, probed, procs, sigVars,
                    histVars >>

\* ----------------------------------------------------- check_seeder_status
\* dead_seeders = []; for torrent_file, process in self.running_seeders.items()
check_begin ==
    /\ Main /\ pc = "chk_begin"
    /\ todo' = DOMAIN running_seeders
    /\ pc' = "chk_loop"
    /\ UNCHANGED << fnVars, mode, phase, exit_code, objVars, current, cur,
                    proc, result, probed, procs, sigVars, histVars >>

\* One iteration: process.poll(), and for an exited handle the pgrep query.
Probe(p, r) ==
    [poll |-> Poll(running_seeders[p]), pg |-> r,
     dead |-> IsDead(Poll(running_seeders[p]), r)]

check_probe ==
    /\ Main /\ pc = "chk_loop" /\ todo # {}
    /\ \E p \in todo :
          /\ todo' = todo \ {p}
          /\ \E r \in IF Poll(running_seeders[p]) = "running"
                      THEN {NotRun} ELSE PgrepOutcomes(p) :
                /\ probed' = Store(probed, p, Probe(p, r))
                /\ IF r.raised /\ Uncaught(r)
                   THEN IF phase = "hold" THEN Exit(1)
                        ELSE pc' = "mon_exc" /\ exit_code' = exit_code
                   ELSE pc' = "chk_loop" /\ exit_code' = exit_code
    /\ UNCHANGED << fnVars, mode, phase, objVars, current, cur,
                    proc, result, procs, sigVars, histVars >>

\* The loop is over: for torrent_file in dead_seeders
check_probed ==
    /\ Main /\ pc = "chk_loop" /\ todo = {}
    /\ todo' = DeadSeeders
    /\ pc' = "chk_del"
    /\ UNCHANGED << fnVars, mode, phase, exit_code, objVars, current, cur,
                    proc, result, probed, procs, sigVars, histVars >>

\* (a removal of dead seeders that also forgets the path was monitored)
check_remove_Forgets ==
    /\ Main /\ pc = "chk_del"
    /\ IF todo = {}
       THEN /\ pc' = IF phase = "hold" THEN "hold_head" ELSE "cycle_end"
            /\ probed' = EmptyMap
            /\ UNCHANGED << todo, running_seeders, monitored_torrents, why >>
       ELSE /\ \E p \in todo :
                 /\ running_seeders' = Delete(running_seeders, p)
                 /\ monitored_torrents' = monitored_torrents \ {p}
                 /\ todo' = todo \ {p}
                 /\ why' = Note(p, "dead")
            /\ pc' = "chk_del"
            /\ probed' = probed
    /\ UNCHANGED << fnVars, mode, phase, exit_code,
                    running, current, cur, proc, result, procs, sigVars >>

\* del self.running_seeders[torrent_file], and the return to the caller (the
\* status print of monitor(), or the sleep of the hold loop), which drops the
\* locals of the call.
check_remove ==
    /\ Main /\ pc = "chk_del"
    /\ IF todo = {}
       THEN /\ pc' = IF phase = "hold" THEN "hold_head" ELSE "cycle_end"
            /\ probed' = EmptyMap
            /\ UNCHANGED << todo, running_seeders, why >>
       ELSE /\ \E p \in todo :
                 /\ running_seeders' = Delete(running_seeders, p)
                 /\ todo' = todo \ {p}
                 /\ why' = Note(p, "dead")
            /\ pc' = "chk_del"
            /\ probed' = probed
    /\ UNCHANGED << fnVars, mode, phase, exit_code, monitored_torrents,
                    running, current, cur, proc, result, procs, sigVars >>

\* (a sleep after which every path is taken to be new again)
monitor_sleep_Forgets ==
    /\ Main /\ pc = "cycle_end"
    /\ pc' = "mon_head"
    /\ current' = {}
    /\ monitored_torrents' = {}
    /\ UNCHANGED << fnVars, mode, phase, exit_code, running_seeders, running,
                    todo, cur, proc, result, probed, procs, sigVars, histVars >>

\* monitor(): the status print, then time.sleep(self.check_interval).  The
\* next iteration assigns current_torrents before it reads it.
monitor_sleep ==
    /\ Main /\ pc = "cycle_end"
    /\ pc' = "mon_head"
    /\ current' = {}
    /\ UNCHANGED << fnVars, mode, phase, exit_code, objVars, todo, cur, proc,
                    result, probed, procs, sigVars, histVars >>

\* (a hold loop that calls monitor())
hold_loop_Rescans ==
    /\ Main /\ pc = "hold_head"
    /\ pc' = "mon_head"
    /\ UNCHANGED << fnVars, mode, phase, exit_code, objVars, locVars, probed,
                    procs, sigVars, histVars >>

\* main(), --start-existing-only: while True: check_seeder_status(); sleep(5)
hold_loop ==
    /\ Main /\ pc = "hold_head"
    /\ pc' = "chk_begin"
    /\ UNCHANGED << fnVars, mode, phase, exit_code, objVars, locVars, probed,
                    procs, sigVars, histVars >>

\* ------------------------------------------------------------ environment
\* The wrapper of a tracked Popen object exits; a real worker leaves the
\* process table.
Probing == Main /\ pc = "chk_loop"

WrapperExits ==
    /\ Probing
    /\ \E p \in DOMAIN running_seeders :
          /\ ~running_seeders[p].exited
          /\ running_seeders' = [running_seeders EXCEPT ![p].exited = TRUE]
    /\ UNCHANGED << fnVars, mode, pc, phase, exit_code, monitored_torrents, running,
                    locVars, probed, procs, sigVars, histVars >>

WorkerExits ==
    /\ Probing
    /\ \E h \in Handles :
          /\ procs[h].worker
          /\ procs' = [procs EXCEPT ![h].worker = FALSE]
    /\ UNCHANGED << fnVars, mode, pc, phase, exit_code, objVars, locVars,
                    probed, sigVars, histVars >>

\* ---------------------------------------------------------- signal handler
\* _signal_handler starts, between two statements of whatever it interrupts:
\* self.running = False, then stop_all_seeders() takes
\* list(self.running_seeders.keys()).  What it interrupts is never resumed
\* (the handler ends in sys.exit): pc and proc stay as they were, to tell where
\* the signal arrived, and the other locals of the interrupted frames, read
\* by nothing from here on, are dropped.
HandlerStart ==
    /\ depth' = depth + 1
    /\ running' = FALSE
    /\ htodo' = DOMAIN running_seeders
    /\ snap' = Tracked
    /\ hcur' = NoPath
    /\ hpc' = "h_loop"
    /\ current' = {} /\ todo' = {} /\ cur' = NoPath /\ result' = "none"
    /\ probed' = EmptyMap
    /\ why' = [p \in Paths |-> ""]
    /\ UNCHANGED << fnVars, mode, pc, phase, exit_code, running_seeders,
                    monitored_torrents, proc, procs, stopped >>

\* SIGINT/SIGTERM reaches the main thread, the handlers installed by __init__.
Signal ==
    /\ exit_code = -1 /\ pc # "construct"
    /\ depth = 0
    /\ HandlerStart

\* SIGINT/SIGTERM again, while a handler invocation runs: signal.signal() masks
\* nothing and the handler keeps no flag, so the handler starts once more, on
\* top of the invocation it interrupts.
SignalAgain ==
    /\ exit_code = -1
    /\ depth >= 1 /\ depth < MaxSignals
    /\ HandlerStart

Handling == depth > 0 /\ exit_code = -1

\* stop_all_seeders -> stop_seeder(torrent_file): the membership test and
\* process.terminate(); a raise skips the del.
handler_terminate ==
    /\ Handling /\ hpc = "h_loop" /\ htodo # {}
    /\ \E p \in htodo :
          /\ htodo' = htodo \ {p}
          /\ IF p \notin DOMAIN running_seeders
             THEN UNCHANGED << running_seeders, hcur, hpc >>
             ELSE \E o \in TermOutcomes :
                     /\ running_seeders' =
                            Store(running_seeders, p,
                                  Terminate(running_seeders[p], depth))
                     /\ IF o = "ok"
                        THEN hcur' = p /\ hpc' = "h_del"
                        ELSE UNCHANGED << hcur, hpc >>
    /\ UNCHANGED << fnVars, mode, pc, phase, exit_code, monitored_torrents, running,
                    locVars, probed, procs, depth, snap, stopped, histVars >>

\* del self.running_seeders[torrent_file]
handler_delete ==
    /\ Handling /\ hpc = "h_del"
    /\ running_seeders' = Delete(running_seeders, hcur)
    /\ stopped' = Store(stopped, running_seeders[hcur].h,
                        running_seeders[hcur])
    /\ hcur' = NoPath
    /\ hpc' = "h_loop"
    /\ UNCHANGED << fnVars, mode, pc, phase, exit_code, monitored_torrents,
                    running, locVars, probed, procs, depth, htodo, snap,
                    histVars >>

\* (a handler without sys.exit: it returns to what it interrupted)
handler_exit_Returns ==
    /\ Handling /\ hpc = "h_loop" /\ htodo = {}
    /\ hpc' = "none"
    /\ depth' = depth - 1
    /\ UNCHANGED << fnVars, mode, pc, phase, exit_code, objVars, locVars, probed,
                    procs, htodo, hcur, snap, stopped, histVars >>

\* sys.exit(0): SystemExit passes every `except Exception` on its way out.
handler_exit ==
    /\ Handling /\ hpc = "h_loop" /\ htodo = {}
    /\ hpc' = "h_exit"
    /\ exit_code' = 0
    /\ UNCHANGED << fnVars, mode, pc, phase, objVars, locVars, probed, procs,
                    depth, htodo, hcur, snap, stopped, histVars >>

\* ------------------------------------------------------------------ Next
Next ==
    \/ Construct
    \/ status
    \/ start_all_existing
    \/ ExistingNext
    \/ start_seeder_spawn
    \/ start_seeder_record
    \/ AddMonitored
    \/ monitor_scan
    \/ monitor_except
    \/ monitor_add
    \/ monitor_remove
    \/ stop_seeder_terminate
    \/ stop_seeder_delete
    \/ RemoveMonitored
    \/ check_begin
    \/ check_probe
    \/ check_probed
    \/ check_remove
    \/ monitor_sleep
    \/ hold_loop
    \/ WrapperExits
    \/ WorkerExits
    \/ Signal
    \/ handler_terminate
    \/ handler_delete
    \/ handler_exit

\* One signal is delivered at most.
Spec == Init /\ [][Next]_vars

\* What the main thread does, as opposed to its environment (worker
\* processes, signals and the handler they start).
MainNext ==
    \/ Construct
    \/ status
    \/ start_all_existing
    \/ ExistingNext
    \/ start_seeder_spawn
    \/ start_seeder_record
    \/ AddMonitored
    \/ monitor_scan
    \/ monitor_except
    \/ monitor_add
    \/ monitor_remove
    \/ stop_seeder_terminate
    \/ stop_seeder_delete
    \/ RemoveMonitored
    \/ check_begin
    \/ check_probe
    \/ check_probed
    \/ check_remove
    \/ monitor_sleep
    \/ hold_loop

\* The main thread is scheduled: every call it makes (Popen, terminate, pgrep,
\* the scan) returns or raises and every time.sleep ends.
SpecLive == Spec /\ WF_vars(MainNext)

\* start_all_existing() when the watched directory holds no descriptor (or
\* is missing): "No torrent files found", return.
StartEmpty == start_all_existing /\ current' = {}

\* The program started on an empty directory: the initial pass has nothing to
\* iterate.
NextFromEmpty ==
    \/ Construct
    \/ status
    \/ StartEmpty
    \/ start_seeder_spawn
    \/ start_seeder_record
    \/ AddMonitored
    \/ monitor_scan
    \/ monitor_except
    \/ monitor_add
    \/ monitor_remove
    \/ stop_seeder_terminate
    \/ stop_seeder_delete
    \/ RemoveMonitored
    \/ check_begin
    \/ check_probe
    \/ check_probed
    \/ check_remove
    \/ monitor_sleep
    \/ hold_loop
    \/ WrapperExits
    \/ WorkerExits
    \/ Signal
    \/ handler_terminate
    \/ handler_delete
    \/ handler_exit

SpecFromEmpty == Init /\ [][NextFromEmpty]_vars

\* The handler runs to its end: terminate() returns or raises.
HandlerNext ==
    \/ handler_terminate
    \/ handler_delete
    \/ handler_exit

SpecShutdown == Spec /\ WF_vars(HandlerNext)

\* The program up to the end of the first iteration of the monitor loop: its
\* sleep and its except clause, which lead to the second one, are left out.
NextFirstCycle ==
    \/ Construct
    \/ status
    \/ start_all_existing
    \/ ExistingNext
    \/ start_seeder_spawn
    \/ start_seeder_record
    \/ AddMonitored
    \/ monitor_scan
    \/ monitor_add
    \/ monitor_remove
    \/ stop_seeder_terminate
    \/ stop_seeder_delete
    \/ RemoveMonitored
    \/ check_begin
    \/ check_probe
    \/ check_probed
    \/ check_remove
    \/ hold_loop
    \/ WrapperExits
    \/ WorkerExits
    \/ Signal
    \/ handler_terminate
    \/ handler_delete
    \/ handler_exit

SpecFirstCycle == Init /\ [][NextFirstCycle]_vars

\* ------------------------------------------------ find_torrent_files alone
\* One find_torrent_files call, made when monitor() is at the head of its
\* loop after an initial pass over the descriptors in `monitored`, of which
\* those in `tracked` were launched and the others failed to spawn.
AfterPass(monitored, tracked) ==
    /\ mode = "monitor" /\ pc = "mon_head" /\ phase = "mon"
    /\ exit_code = -1
    /\ running = TRUE
    /\ monitored_torrents = monitored
    /\ procs = IF tracked = Paths
               THEN << NewProc(<<"a">>), NewProc(<<"b", "a">>) >>
               ELSE IF tracked = {} THEN << >>
               ELSE << NewProc(CHOOSE p \in tracked : TRUE) >>
    /\ running_seeders =
          [p \in tracked |->
              Popen(IF tracked = Paths /\ p = <<"b", "a">> THEN 2 ELSE 1)]
    /\ why = [p \in Paths |->
                 IF p \in monitored \ tracked THEN "failed" ELSE ""]
    /\ current = {} /\ todo = {} /\ cur = NoPath /\ proc = 0
    /\ result = "none" /\ probed = EmptyMap
    /\ depth = 0 /\ hpc = "none" /\ htodo = {} /\ hcur = NoPath
    /\ snap = {} /\ stopped = EmptyMap

InitScan ==
    /\ dir_names = NestedNames
    /\ \E monitored \in SUBSET Paths : \E tracked \in SUBSET monitored :
          AfterPass(monitored, tracked)
    /\ models_dir \in DirStates
    /\ found = {}
    /\ model_name = << >> /\ torrent_path = << >> /\ resolved = {}

\* What the call gives for directory state d when glob's outcome is o.
Scan(d, o) == [raised |-> ScanRaises(d, o),
               files  |-> IF ScanRaises(d, o) THEN {}
                          ELSE find_torrent_files(d)]

ScanCall ==
    /\ found = {}
    /\ \E o \in ScanOutcomes : found' = {Scan(models_dir, o)}
    /\ UNCHANGED << mode, pc, phase, exit_code, objVars, locVars, probed,
                    procs, sigVars, histVars, models_dir, model_name,
                    torrent_path, resolved, dir_names >>

SpecScan == InitScan /\ [][ScanCall]_vars

\* ------------------------------------------------------------ status alone
\* One status() call on an AutoSeeder whose attributes are in any state a run
\* leaves them in: paths monitored or not, tracked or not, each tracked handle
\* running or exited, with or without terminate requests, its worker in the
\* process table or gone.
HandleOf(tracked, p) == IF tracked = Paths /\ p = <<"b", "a">> THEN 2 ELSE 1

PopenStates(h) ==
    {[h |-> h, exited |-> x, tmain |-> t, tsig |-> {}] :
        x \in BOOLEAN, t \in 0..MaxTerm}

InitStatus ==
    /\ dir_names = NestedNames
    /\ mode = "status" /\ pc = "main" /\ phase = "start"
    /\ exit_code = -1
    /\ running = TRUE
    /\ monitored_torrents \in SUBSET Paths
    /\ \E tracked \in SUBSET Paths :
          /\ running_seeders \in
                {f \in [tracked -> UNION {PopenStates(h) : h \in 1..2}] :
                    \A p \in tracked : f[p].h = HandleOf(tracked, p)}
          /\ procs \in
                {s \in [1..Cardinality(tracked) ->
                          [path : tracked, worker : BOOLEAN]] :
                    \A p \in tracked : s[HandleOf(tracked, p)].path = p}
    /\ why = [p \in Paths |-> ""]
    /\ current = {} /\ todo = {} /\ cur = NoPath /\ proc = 0
    /\ result = "none" /\ probed = EmptyMap
    /\ depth = 0 /\ hpc = "none" /\ htodo = {} /\ hcur = NoPath
    /\ snap = {} /\ stopped = EmptyMap
    /\ Idle

SpecStatus == InitStatus /\ [][status]_vars

\* ------------------------------------------------------ descriptor names
\* A client downloads the descriptor of a model into the watched directory,
\* and the seeder resolves the file it finds there to a model name.
InitNames ==
    /\ dir_names = NestedNames
    /\ NotStarted /\ mode = "monitor"
    /\ model_name \in ModelNames
    /\ torrent_path = << >>
    /\ resolved = {}
    /\ models_dir = [exists |-> FALSE, files |-> {}]
    /\ found = {}

ClientDownloads ==
    /\ torrent_path = << >>
    /\ torrent_path' = download_torrent_file(model_name)
    /\ UNCHANGED << mode, pc, phase, exit_code, objVars, locVars, probed,
                    procs, sigVars, histVars, models_dir, found, model_name,
                    resolved, dir_names >>

SeederResolves ==
    /\ torrent_path # << >> /\ resolved = {}
    /\ resolved' = {get_model_name_from_torrent(torrent_path)}
    /\ UNCHANGED << mode, pc, phase, exit_code, objVars, locVars, probed,
                    procs, sigVars, histVars, models_dir, found, model_name,
                    torrent_path, dir_names >>

NextNames == ClientDownloads \/ SeederResolves

SpecNames == InitNames /\ [][NextNames]_vars

\* The watched directory holds two descriptors of one model name.
InitSameModel == dir_names = SameModelNames /\ NotStarted /\ Idle

SpecSameModel == InitSameModel /\ [][Next]_vars

\* Signals are delivered while the handler runs, too.
NextNested == Next \/ SignalAgain

SpecNested == Init /\ [][NextNested]_vars

\* ================================================================ claims
\* The Popen object of handle h: in running_seeders, or deleted by the handler.
ObjectOf(h) ==
    IF h \in DOMAIN stopped THEN stopped[h]
    ELSE running_seeders[CHOOSE p \in DOMAIN running_seeders :
                             running_seeders[p].h = h]

Objects == {running_seeders[p] : p \in DOMAIN running_seeders} \cup
           {stopped[h] : h \in DOMAIN stopped}

\* A monitor cycle has scanned and has not called start_seeder yet.
Scanned == depth = 0 /\ pc = "mon_add" /\ todo = current

\* A monitor cycle has run to its end (the status print before the sleep).
CycleEnd == depth = 0 /\ pc = "cycle_end"

\* check_seeder_status has deleted its dead_seeders and is about to return.
CheckDone == depth = 0 /\ pc = "chk_del" /\ todo = {}

\* C1: running_seeders holds one handle per path, each the handle of a worker
\* launched for that path and of no other path; no step replaces the handle
\* recorded for a path by another one; and start_seeder called for a path that
\* has an entry returns False, spawns nothing and leaves running_seeders as
\* it is.
C1_OneHandle ==
    \A p \in DOMAIN running_seeders :
       /\ running_seeders[p].h \in Handles
       /\ procs[running_seeders[p].h].path = p
       /\ \A q \in DOMAIN running_seeders :
             running_seeders[q].h = running_seeders[p].h => q = p

C1_Step ==
    /\ \A p \in DOMAIN running_seeders \cap DOMAIN running_seeders' :
          running_seeders'[p].h = running_seeders[p].h
    /\ (pc = "ss_spawn" /\ pc' # "ss_spawn" /\ cur \in DOMAIN running_seeders)
          => /\ pc' = "ss_ret" /\ result' = "False"
             /\ procs' = procs
             /\ running_seeders' = running_seeders

C1_AtMostOneHandle == []C1_OneHandle /\ [][C1_Step]_vars

\* start_seeder has returned False for a path that has an entry.
C1_Witness ==
    depth = 0 /\ pc = "ss_ret" /\ result = "False"
    /\ cur \in DOMAIN running_seeders

\* C2 (as claimed): a path that check_seeder_status removed as Dead and that
\* the scan of a later monitor cycle still holds is launched in that cycle.
C2_DeadRelaunched ==
    Scanned => \A p \in current : why[p] = "dead" => p \in NewTorrents

\* C3 (as claimed): a path whose launch failed and that the scan of a later
\* monitor cycle still holds is launched again in that cycle.
C3_FailedRetried ==
    Scanned => \A p \in current : why[p] = "failed" => p \in NewTorrents

C4_Inv ==
    CycleEnd => \A p \in current :
                   p \in DOMAIN running_seeders \/ why[p] \in {"dead", "failed"}

C4_Step ==
    \A p \in DOMAIN running_seeders :
       (p \notin DOMAIN running_seeders'
           \/ running_seeders'[p].h # running_seeders[p].h)
       => \/ depth = 0 /\ pc = "st_del" /\ cur = p /\ phase = "mon"
             /\ p \notin current
          \/ depth = 0 /\ pc = "chk_del" /\ p \in DeadSeeders
          \/ depth >= 1 /\ hpc = "h_del" /\ hcur = p

C5_RemovedByCycleEnd ==
    CycleEnd => /\ DOMAIN running_seeders \subseteq current
                /\ monitored_torrents \subseteq current

\* C6 (as claimed): when the handler of the one signal delivered exits, every
\* worker that was in running_seeders when it began has received exactly one
\* terminate request.
C6_ExactlyOneTerminate ==
    (depth = 1 /\ hpc = "h_exit") => \A h \in snap : Terms(ObjectOf(h)) = 1

\* C7 (as claimed): no worker handle receives terminate from two handler
\* invocations.
C7_NoDoubleDrain == \A e \in Objects : Cardinality(e.tsig) <= 1

\* C8 (as claimed): the handler never runs while the main thread is between
\* a spawn and the recording of its handle, or between a terminate and the
\* deletion of the entry.
C8_NoInterleaving == depth >= 1 => proc = 0 /\ pc # "st_del"

\* C9: an entry is appended to dead_seeders exactly when its handle has
\* exited and the process-table query did not answer with exit status 0 and
\* non-empty output; and when check_seeder_status is about to return, every
\* entry it iterated is in running_seeders exactly when it was not found Dead.
ReportedAlive(x) ==
    \/ x.poll = "running"
    \/ x.poll = "exited" /\ ~x.pg.raised /\ x.pg.returncode = 0 /\ x.pg.stdout

C9_Liveness ==
    /\ \A p \in DOMAIN probed : probed[p].dead <=> ~ReportedAlive(probed[p])
    /\ CheckDone =>
          /\ DOMAIN running_seeders \subseteq DOMAIN probed
          /\ \A p \in DOMAIN probed :
                p \in DOMAIN running_seeders <=> ReportedAlive(probed[p])

\* One call has kept an entry by the handle, kept one by the process table
\* or removed one after an empty query, with two entries iterated.
C9_Witness ==
    /\ CheckDone /\ DOMAIN probed = Paths
    /\ \E p \in Paths : \E q \in Paths \ {p} :
          /\ probed[p].poll = "exited" /\ probed[p].pg = PgrepMatch
          /\ p \in DOMAIN running_seeders
          /\ probed[q].pg = PgrepNone
          /\ q \notin DOMAIN running_seeders

\* C10: an entry whose process-table query raised is found Dead and is gone
\* when check_seeder_status is about to return; the call iterates every
\* entry all the same; and the error reaches neither monitor's except clause
\* nor main's.
C10_PgrepRaiseIsDead ==
    /\ \A p \in DOMAIN probed : probed[p].pg.raised => probed[p].dead
    /\ CheckDone =>
          \A p \in DOMAIN probed :
             probed[p].pg.raised => p \notin DOMAIN running_seeders
    /\ (depth = 0 /\ pc = "chk_del") =>
          DOMAIN running_seeders \subseteq DOMAIN probed
    /\ (pc = "mon_exc" => probed = EmptyMap)
    /\ (exit_code = 1 => phase = "start")

\* The query raised for one entry, which is gone, and the other entry was
\* probed after it and is still there.
C10_Witness ==
    /\ CheckDone /\ DOMAIN probed = Paths
    /\ \E p \in Paths : \E q \in Paths \ {p} :
          /\ probed[p].pg = PgrepRaise
          /\ p \notin DOMAIN running_seeders
          /\ probed[q].poll = "exited"
          /\ q \in DOMAIN running_seeders

\* C11: a start_seeder call whose Popen raises returns False and leaves
\* running_seeders as it was, without an entry for the path; the caller then
\* goes back to its loop with the descriptors not yet iterated, so that at the
\* end of the pass every descriptor of the scan has been handed to
\* start_seeder.
C11_Step ==
    /\ (depth' = 0 /\ pc = "ss_spawn" /\ cur \notin DOMAIN running_seeders
           /\ procs' = procs)
          => /\ pc' = "ss_ret" /\ result' = "False"
             /\ running_seeders' = running_seeders
             /\ cur \notin DOMAIN running_seeders'
             /\ exit_code' = -1
    /\ (depth' = 0 /\ pc = "ss_ret" /\ result = "False")
          => /\ pc' = (IF phase = "sae" THEN "sae_loop" ELSE "mon_add")
             /\ todo' = todo
             /\ exit_code' = -1

C11_PassDone ==
    /\ (depth = 0 /\ pc = "sae_loop" /\ todo = {})
          => current \subseteq monitored_torrents
    /\ (depth = 0 /\ pc = "mon_rm" /\ phase = "mon")
          => current \subseteq monitored_torrents

C11_SpawnFailureContained == []C11_PassDone /\ [][C11_Step]_vars

\* In one initial pass the spawn raised for one descriptor and the next
\* descriptor was launched.
C11_Witness ==
    /\ depth = 0 /\ phase = "sae" /\ pc = "ss_ret" /\ result = "True"
    /\ \E q \in current \ {cur} :
          why[q] = "failed" /\ q \notin DOMAIN running_seeders

\* C12: a terminate() that raises ends neither the removal loop of a monitor
\* cycle nor the handler's drain.  In the removal loop the paths still to be
\* stopped are at every moment exactly the monitored paths missing from the
\* scan, and each stop_seeder call for a path with an entry requests its
\* termination whether or not the call raises; in the drain every entry the
\* handler found is either still to be stopped or has its terminate request,
\* and when the handler exits every one of them has it.
Removing == depth = 0 /\ phase = "mon"

C12_Inv ==
    /\ (Removing /\ pc = "mon_rm") => todo = monitored_torrents \ current
    /\ (Removing /\ pc \in {"st_term", "st_del", "st_ret"})
          => /\ cur \notin todo
             /\ todo \cup {cur} = monitored_torrents \ current
    /\ (Removing /\ pc \in {"st_del", "st_ret"} /\ cur \in DOMAIN running_seeders)
          => running_seeders[cur].tmain >= 1
    /\ (depth = 1 /\ hpc \in {"h_loop", "h_del"})
          => \A p \in DOMAIN running_seeders :
                running_seeders[p].h \in snap
                   => p \in htodo \/ 1 \in running_seeders[p].tsig
    /\ (depth = 1 /\ hpc = "h_exit")
          => \A h \in snap : 1 \in ObjectOf(h).tsig

C12_Step ==
    /\ (depth' = 0 /\ pc = "st_term")
          => /\ pc' \in {"st_del", "st_ret"}
             /\ todo' = todo
             /\ exit_code' = -1
    /\ (depth = 1 /\ depth' = 1 /\ hpc = "h_loop" /\ htodo # {})
          => /\ hpc' \in {"h_loop", "h_del"}
             /\ exit_code' = -1
             /\ \E p \in htodo :
                   /\ htodo' = htodo \ {p}
                   /\ p \in DOMAIN running_seeders
                         => 1 \in running_seeders'[p].tsig

C12_TerminateErrorContained == []C12_Inv /\ [][C12_Step]_vars

\* The handler's drain: terminate() raised for one entry, which is still in
\* running_seeders, and the entry iterated after it has just been terminated.
C12_Witness ==
    /\ depth = 1 /\ hpc = "h_del" /\ htodo = {}
    /\ \E q \in DOMAIN running_seeders \ {hcur} :
          /\ running_seeders[q].h \in snap
          /\ 1 \in running_seeders[q].tsig

\* C13: the monitor loop ends only through the signal handler: the process
\* has an exit status in the monitor pass only after a handler invocation
\* began, and status 1 is given only before the first pass is entered.  And
\* whatever fails in a cycle (a launch, a terminate, a probe, the scan), the
\* main thread comes to the head of the loop again and from there to the end
\* of a cycle or to monitor's except clause, unless a signal arrives first.
C13_OnlyShutdownEnds ==
    /\ (phase = "mon" /\ exit_code # -1) => depth >= 1 /\ exit_code = 0
    /\ (exit_code = 1 => phase = "start")

C13_NextCycle ==
    /\ (phase = "mon" /\ depth = 0) ~> (depth >= 1 \/ pc = "mon_head")
    /\ (phase = "mon" /\ depth = 0 /\ pc = "mon_head")
          ~> (depth >= 1 \/ pc \in {"cycle_end", "mon_exc"})

C13_LoopGoesOn == []C13_OnlyShutdownEnds /\ C13_NextCycle

\* The loop is at its head again after a cycle in which a terminate() raised
\* and with a descriptor in the scan whose launch failed.
C13_Witness ==
    /\ depth = 0 /\ phase = "mon" /\ pc = "mon_head"
    /\ \E p \in DOMAIN running_seeders : running_seeders[p].tmain >= 1
    /\ \E q \in Paths : why[q] = "failed"

\* C14 (up to the end of the first iteration of the monitor loop): the
\* initial pass calls start_seeder once for each descriptor of its scan S -
\* at every moment S is split into the paths done, the path of the call in
\* progress and the paths still to come; each call makes one Popen call, so
\* that when monitor() begins monitored_torrents is S and each path of S has
\* either one worker launched or one failed spawn.  In the first monitor
\* iteration a scan equal to S gives no path to launch, and no path is ever
\* launched twice.
InCall == IF pc \in {"ss_spawn", "ss_record", "ss_ret"} THEN {cur} ELSE {}

\* The successful Popen calls made for path p.
Launched(p) == {h \in Handles : procs[h].path = p}

C14_OneLaunchEach ==
    /\ (depth = 0 /\ phase = "sae")
          => /\ monitored_torrents \cup InCall \cup todo = current
             /\ monitored_torrents \cap todo = {}
             /\ InCall \cap (monitored_torrents \cup todo) = {}
    /\ (depth = 0 /\ phase = "mon" /\ pc = "mon_head")
          => \A p \in monitored_torrents :
                \/ Cardinality(Launched(p)) = 1 /\ why[p] = ""
                \/ Cardinality(Launched(p)) = 0 /\ why[p] = "failed"
    /\ (Scanned /\ current = monitored_torrents) => NewTorrents = {}
    /\ (depth = 0 /\ phase = "mon" /\ InCall # {})
          => cur \in current /\ cur \notin monitored_torrents
    /\ \A p \in Paths : Cardinality(Launched(p)) <= 1

\* The first monitor iteration has scanned the two descriptors the initial
\* pass found, one launched and one whose spawn failed, and has none to launch.
C14_Witness ==
    /\ Scanned /\ current = Paths /\ monitored_torrents = Paths
    /\ NewTorrents = {}
    /\ \E p \in Paths : Cardinality(Launched(p)) = 1
    /\ \E q \in Paths : why[q] = "failed"

\* C15 (as claimed, for a program started on an empty directory): every
\* start_seeder call that monitor makes for a descriptor that appeared makes
\* its one Popen call - it returns False only when that call raised - and the
\* worker stopped for a descriptor that disappeared has received exactly one
\* terminate call.
C15_OneLaunchOneTerminate ==
    /\ (depth = 0 /\ pc = "ss_ret" /\ result = "False") => why[cur] = "failed"
    /\ (depth = 0 /\ pc = "st_del") => running_seeders[cur].tmain = 1

\* C16: from the moment a signal is handled self.running is false and stays
\* false; the main thread makes no further step - no scan, no launch, no
\* probe, and it stays at the statement the signal found it at; entries only
\* leave running_seeders; the process exits only from the handler, with
\* status 0, its drain over; and it does exit.
C16_Inv ==
    /\ (depth >= 1 <=> ~running)
    /\ (~running /\ exit_code # -1)
          => exit_code = 0 /\ hpc = "h_exit" /\ htodo = {}

C16_Step ==
    (~running \/ ~running')
       => /\ pc' = pc
          /\ procs' = procs /\ proc' = proc
          /\ current' = {} /\ probed' = EmptyMap
          /\ monitored_torrents' = monitored_torrents
          /\ DOMAIN running_seeders' \subseteq DOMAIN running_seeders
          /\ ~running'

C16_NothingAfterSignal ==
    []C16_Inv /\ [][C16_Step]_vars /\ (~running ~> exit_code = 0)

\* The signal found the main thread about to spawn a worker; the handler
\* stopped a tracked worker and the process has exited, nothing launched.
C16_Witness ==
    /\ exit_code = 0 /\ depth = 1 /\ pc = "ss_spawn"
    /\ stopped # EmptyMap
    /\ Len(procs) = Cardinality(DOMAIN stopped)

\* C17: with --start-existing-only, once the initial pass is over the main
\* thread is only ever inside check_seeder_status or at the sleep between two
\* calls; the workers launched are those of the initial pass, one at most for
\* each descriptor it found; no tracked worker has been sent terminate by the
\* main thread; and a descriptor of the initial pass is without an entry only
\* if its spawn failed or check_seeder_status found its worker Dead.
C17_HoldOnlyProbes ==
    (depth = 0 /\ phase = "hold")
       => /\ mode = "hold"
          /\ pc \in {"chk_begin", "chk_loop", "chk_del", "hold_head", "exited"}
          /\ current = {}
          /\ \A p \in Paths :
                /\ Cardinality(Launched(p)) <= 1
                /\ Launched(p) # {} => p \in monitored_torrents
          /\ \A p \in DOMAIN running_seeders : running_seeders[p].tmain = 0
          /\ \A p \in monitored_torrents :
                p \in DOMAIN running_seeders \/ why[p] \in {"failed", "dead"}

\* The hold loop is at its sleep with one worker removed as Dead and the
\* other still tracked.
C17_Witness ==
    /\ depth = 0 /\ phase = "hold" /\ pc = "hold_head"
    /\ \E p \in Paths : why[p] = "dead"
    /\ \E q \in DOMAIN running_seeders : running_seeders[q].exited

\* C18: the main thread is inside stop_seeder only in a monitor cycle and
\* only for a path that the cycle's scan does not hold; no other step of the
\* main thread adds a terminate request to a tracked worker, and the other
\* requests are the handler's.  So a worker whose descriptor is in every scan
\* gets no terminate from a monitor cycle or from check_seeder_status.
C18_Inv ==
    (depth = 0 /\ pc \in {"st_term", "st_del", "st_ret"})
       => phase = "mon" /\ cur \notin current

C18_Step ==
    \A p \in DOMAIN running_seeders \cap DOMAIN running_seeders' :
       /\ running_seeders'[p].tmain # running_seeders[p].tmain
             => /\ depth = 0 /\ pc = "st_term" /\ cur = p
                /\ p \notin current
       /\ running_seeders'[p].tsig # running_seeders[p].tsig
             => depth >= 1 /\ hpc = "h_loop"

C18_TerminateOnlyAbsent == []C18_Inv /\ [][C18_Step]_vars

\* A monitor cycle has terminated the worker of a descriptor missing from its
\* scan, and the worker of the descriptor in the scan has no request.
C18_Witness ==
    /\ depth = 0 /\ pc = "st_del" /\ cur \notin current
    /\ running_seeders[cur].tmain = 1
    /\ \E q \in current \cap DOMAIN running_seeders :
          running_seeders[q].tmain = 0

\* C19: a find_torrent_files call on a watched directory that does not exist
\* gives the empty set and does not raise, and the call leaves
\* running_seeders and monitored_torrents as they were.
C19_Inv ==
    (found # {} /\ ~models_dir.exists)
       => found = {[raised |-> FALSE, files |-> {}]}

C19_Step ==
    /\ running_seeders' = running_seeders
    /\ monitored_torrents' = monitored_torrents

C19_MissingDirIsEmpty == []C19_Inv /\ [][C19_Step]_vars

\* The call was made on a missing directory with two descriptors monitored
\* and a worker tracked.
C19_Witness ==
    /\ found = {[raised |-> FALSE, files |-> {}]}
    /\ ~models_dir.exists
    /\ monitored_torrents = Paths
    /\ running_seeders # EmptyMap

\* C20 (as claimed): the name get_model_name_from_torrent gives for the file
\* that download_torrent_file wrote for model n is n.
C20_RoundTrip == resolved # {} => resolved = {model_name}

\* The entry of path q: its Popen object, or nothing.
EntryOf(d, q) == IF q \in DOMAIN d THEN {d[q]} ELSE {}

\* C21 (for two descriptor files of one model name): every entry of
\* running_seeders is stored under the path its worker was launched for, and
\* two paths never share a worker; start_seeder for a path without an entry
\* is refused by nothing but a Popen that raises, whatever the other path's
\* entry, and the entry it stores is a new worker of its own path; and a step
\* that launches, removes or finds Dead one path leaves the entry of the
\* other path as it was.
C21_Inv ==
    /\ \A p \in Paths : \A q \in Paths : ModelOf(p) = ModelOf(q)
    /\ \A p \in DOMAIN running_seeders :
          /\ running_seeders[p].h \in Handles
          /\ procs[running_seeders[p].h].path = p
          /\ \A q \in DOMAIN running_seeders \ {p} :
                running_seeders[q].h # running_seeders[p].h

C21_Step ==
    /\ (depth' = 0 /\ pc = "ss_spawn" /\ cur \notin DOMAIN running_seeders)
          => \/ Len(procs') = Len(procs) + 1 /\ pc' = "ss_record"
             \/ procs' = procs /\ why'[cur] = "failed"
    /\ (depth' = 0 /\ pc = "ss_record")
          => /\ cur \in DOMAIN running_seeders'
             /\ running_seeders'[cur].h = Len(procs)
             /\ running_seeders'[cur].h \notin Tracked
    /\ \A q \in Paths :
          /\ (depth' = 0 /\ pc \in {"ss_spawn", "ss_record", "ss_ret",
                                    "st_term", "st_del", "st_ret"}
                 /\ cur # q)
                => EntryOf(running_seeders', q) = EntryOf(running_seeders, q)
          /\ (depth' = 0 /\ pc = "chk_del" /\ q \notin DeadSeeders)
                => EntryOf(running_seeders', q) = EntryOf(running_seeders, q)

C21_KeyedByPath == []C21_Inv /\ [][C21_Step]_vars

\* The two descriptors of one model name each have their worker and their
\* entry, and the worker of one has been terminated for its removed file
\* while the other's has no request.
C21_Witness ==
    /\ depth = 0 /\ pc = "st_del"
    /\ DOMAIN running_seeders = Paths
    /\ \A p \in Paths : \A q \in Paths : ModelOf(p) = ModelOf(q)
    /\ \E q \in Paths \ {cur} : running_seeders[q].tmain = 0

\* C22: a status() call leaves running_seeders, monitored_torrents and
\* self.running as they were, and launches no worker and sends no terminate
\* request (the Popen objects and the process table are as they were).
C22_Step ==
    /\ running_seeders' = running_seeders
    /\ monitored_torrents' = monitored_torrents
    /\ running' = running
    /\ procs' = procs

C22_StatusReadsOnly == [][C22_Step]_vars

\* status() has returned on an object that tracks two workers, one of them
\* exited and one with a terminate request, and monitors one path.
C22_Witness ==
    /\ mode = "status" /\ pc = "exited"
    /\ DOMAIN running_seeders = Paths
    /\ \E p \in Paths : running_seeders[p].exited
    /\ \E p \in Paths : running_seeders[p].tmain >= 1
    /\ Cardinality(monitored_torrents) = 1

\* C23: the process ends with status 0 or 1 only.  It ends with 0 from the
\* signal handler, in every mode, and when main returns from the status
\* branch; it ends with 1 when the construction of the AutoSeeder raises or
\* the scan of the initial pass does, and only then.
C23_Inv ==
    /\ exit_code \in {-1, 0, 1}
    /\ (depth >= 1 /\ exit_code # -1) => exit_code = 0 /\ hpc = "h_exit"
    /\ (depth = 0 /\ exit_code = 0) => mode = "status" /\ pc = "exited"
    /\ exit_code = 1 => depth = 0 /\ pc = "exited" /\ phase = "start"

C23_Step ==
    /\ (depth' >= 1 /\ exit_code = -1 /\ exit_code' # -1)
          => exit_code' = 0 /\ hpc = "h_loop" /\ htodo = {}
    /\ (depth' = 0 /\ pc = "main" /\ mode = "status" /\ pc' # pc)
          => exit_code' = 0
    /\ (pc = "construct" /\ pc' = "exited") => exit_code' = 1
    /\ (depth' = 0 /\ pc = "main" /\ mode # "status" /\ pc' = "exited")
          => exit_code' = 1
    /\ (exit_code = -1 /\ exit_code' = 1) => pc \in {"construct", "main"}

C23_ExitCodes == []C23_Inv /\ [][C23_Step]_vars

\* A signal in hold mode: the handler has stopped a worker of the initial
\* pass and the process has ended with status 0.
C23_Witness ==
    /\ mode = "hold" /\ phase = "hold" /\ depth = 1
    /\ exit_code = 0 /\ hpc = "h_exit"
    /\ stopped # EmptyMap

\* The real workers of path p that are in the process table.
LiveWorkers(p) == {h \in Launched(p) : procs[h].worker}

\* C24 (as claimed): at most one real worker is live for a descriptor path
\* at any time.
C24_OneLiveWorker == \A p \in Paths : Cardinality(LiveWorkers(p)) <= 1

\* The main thread is inside check_seeder_status.
Checking == pc \in {"chk_begin", "chk_loop", "chk_del"}

\* C25: while check_seeder_status runs, an entry leaves running_seeders only
\* in the loop over dead_seeders and only if the call found it Dead; an entry
\* that stays keeps its handle and gets no terminate request; no entry is
\* added and no worker launched; monitored_torrents does not change.  When the
\* call is about to return, the entries it iterated that it did not find
\* Dead are all in running_seeders and those it found Dead are all gone.
C25_Inv ==
    CheckDone =>
       \A p \in DOMAIN probed :
          p \in DOMAIN running_seeders <=> ~probed[p].dead

C25_Step ==
    (depth' = 0 /\ Checking)
       => /\ monitored_torrents' = monitored_torrents
          /\ Len(procs') = Len(procs)
          /\ DOMAIN running_seeders' \subseteq DOMAIN running_seeders
          /\ \A p \in DOMAIN running_seeders :
                IF p \in DOMAIN running_seeders'
                THEN /\ running_seeders'[p].h = running_seeders[p].h
                     /\ running_seeders'[p].tmain = running_seeders[p].tmain
                     /\ running_seeders'[p].tsig = running_seeders[p].tsig
                ELSE /\ pc = "chk_del"
                     /\ p \in DOMAIN probed /\ probed[p].dead

C25_RemovesOnlyDead == []C25_Inv /\ [][C25_Step]_vars

\* The call has removed the entry it found Dead, whose path is still
\* monitored, and kept the entry whose handle runs, which has no terminate
\* request.
C25_Witness ==
    /\ CheckDone /\ DOMAIN probed = Paths
    /\ \E p \in Paths : \E q \in Paths \ {p} :
          /\ probed[p].dead /\ p \notin DOMAIN running_seeders
          /\ p \in monitored_torrents
          /\ probed[q].poll = "running" /\ q \in DOMAIN running_seeders
          /\ Terms(running_seeders[q]) = 0

\* The file name of q contains the file name of p, another descriptor.
NameInside(p, q) == Len(p) < Len(q) /\ SubSeq(q, Len(q) - Len(p) + 1, Len(q)) = p

\* Path p is probed by this step of check_seeder_status: its handle has exited,
\* no worker launched for p is left, and a worker runs for another descriptor
\* whose file name contains p's.
C26_Case(p) ==
    /\ depth' = 0 /\ pc = "chk_loop"
    /\ p \in todo /\ p \notin todo'
    /\ running_seeders[p].exited
    /\ LiveWorkers(p) = {}
    /\ \E q \in Paths : NameInside(p, q) /\ LiveWorkers(q) # {}

\* The same probe when no worker is left for any descriptor.
C26_NoneLeft(p) ==
    /\ depth' = 0 /\ pc = "chk_loop"
    /\ p \in todo /\ p \notin todo'
    /\ running_seeders[p].exited
    /\ \A q \in Paths : LiveWorkers(q) = {}

\* pgrep ran and answered: exit status 0 (match) or 1 (no match).
PgrepAnswered(r) == ~r.raised /\ r.returncode \in {0, 1}

\* C26 (as claimed): an exited handle whose own worker is gone is reported
\* Alive whenever a worker of another descriptor runs whose file name contains
\* its file name.
C26_Step0 == \A p \in Paths : C26_Case(p) => ~probed'[p].dead

C26_AliveWhileOtherRuns == [][C26_Step0]_vars

\* C26 (amended): an exited handle whose own worker is gone is reported Alive
\* whenever a worker of another descriptor runs whose file name contains its
\* file name and the pgrep query answers; it is reported Dead when the query
\* raises or fails, and when no worker of any descriptor is left; and an entry
\* reported Alive is in running_seeders when check_seeder_status returns.
C26_Step ==
    \A p \in Paths :
       /\ (C26_Case(p) /\ PgrepAnswered(probed'[p].pg))
             => probed'[p].pg = PgrepMatch /\ ~probed'[p].dead
       /\ (C26_Case(p) /\ ~PgrepAnswered(probed'[p].pg)) => probed'[p].dead
       /\ C26_NoneLeft(p) => probed'[p].dead

C26_Inv ==
    (depth = 0 /\ pc = "chk_del")
       => \A p \in DOMAIN probed : ~probed[p].dead => p \in DOMAIN running_seeders

C26_AliveByOtherWorker == []C26_Inv /\ [][C26_Step]_vars

\* check_seeder_status is about to return: it kept the entry of a.torrent,
\* whose handle has exited and whose worker is gone, on the match of the
\* worker of ba.torrent.
C26_Witness ==
    /\ CheckDone
    /\ \E p \in DOMAIN running_seeders :
          /\ p \in DOMAIN probed
          /\ probed[p].poll = "exited" /\ probed[p].pg = PgrepMatch
          /\ LiveWorkers(p) = {}
          /\ \E q \in Paths : NameInside(p, q) /\ LiveWorkers(q) # {}

\* The main thread is at a time.sleep between two passes: the one that ends a
\* monitor cycle, the one of monitor's except clause, or the hold loop's.
Sleeping == pc \in {"cycle_end", "mon_exc", "hold_head"}

\* C27: while no handler runs, a path gets an entry in running_seeders only
\* by start_seeder recording the worker it spawned for it, and loses it only
\* by stop_seeder in a monitor cycle whose scan lacks the path or by
\* check_seeder_status having found it Dead; a path that keeps its entry keeps
\* its handle; and the step that ends a sleep leaves running_seeders and
\* monitored_torrents as they were.
C27_Step ==
    depth' = 0 =>
       /\ \A p \in Paths :
             /\ (p \notin DOMAIN running_seeders /\ p \in DOMAIN running_seeders')
                   => /\ pc = "ss_record" /\ cur = p
                      /\ running_seeders'[p].h = proc
             /\ (p \in DOMAIN running_seeders /\ p \notin DOMAIN running_seeders')
                   => \/ pc = "st_del" /\ cur = p /\ phase = "mon"
                         /\ p \notin current
                      \/ pc = "chk_del" /\ p \in DeadSeeders
             /\ (p \in DOMAIN running_seeders /\ p \in DOMAIN running_seeders')
                   => running_seeders'[p].h = running_seeders[p].h
       /\ Sleeping => /\ running_seeders' = running_seeders
                      /\ monitored_torrents' = monitored_torrents

C27_OnlyReconciliation == [][C27_Step]_vars

\* A monitor cycle is at its sleep, having launched or kept a worker for a
\* path of its scan, with an entry removed as Dead and a path dropped from
\* monitored_torrents.
C27_Witness ==
    /\ CycleEnd
    /\ \E p \in current : p \in DOMAIN running_seeders
    /\ \E q \in Paths : why[q] = "dead"
    /\ monitored_torrents # Paths

\* C28: at the end of a completed monitor cycle monitored_torrents is the set
\* its scan returned; it holds from the end of the removal loop on.
C28_MonitoredIsScan ==
    (depth = 0 /\ phase = "mon"
        /\ \/ pc = "mon_rm" /\ todo = {}
           \/ Checking
           \/ pc = "cycle_end")
       => monitored_torrents = current

\* A cycle has ended whose scan holds a path that failed to launch, while the
\* entry of a path missing from the scan is still in running_seeders.
C28_Witness ==
    /\ CycleEnd /\ monitored_torrents = current
    /\ \E p \in current : why[p] = "failed"
    /\ \E q \in DOMAIN running_seeders : q \notin current

\* start_all_existing has returned and the next pass has not begun.
InitialPassDone ==
    depth = 0 /\ pc = "mon_head" /\ phase = "mon" /\ current = {} /\ todo = {}

\* C29 (as claimed): after the initial pass and at the end of every completed
\* monitor cycle, every path with an entry in running_seeders is in
\* monitored_torrents.
C29_TrackedAreMonitored ==
    (CycleEnd \/ InitialPassDone)
       => DOMAIN running_seeders \subseteq monitored_torrents

\* C30 (as claimed): when the process exits from the signal handler, no
\* worker that Popen returned is unrecorded (held only by start_seeder's
\* local, which the exit discards), and every recorded one that no earlier
\* removal took out of running_seeders has had its terminate request.
C30_NoWorkerLeftBehind ==
    (depth >= 1 /\ hpc = "h_exit")
       => /\ proc = 0
          /\ \A h \in Tracked \cup DOMAIN stopped : Terms(ObjectOf(h)) >= 1

\* C31 (as claimed): a monitor cycle whose scan is empty because the watched
\* directory is gone ends with running_seeders and monitored_torrents both
\* empty.
C31_EmptiedByMissingDir ==
    (CycleEnd /\ current = {})
       => running_seeders = EmptyMap /\ monitored_torrents = {}

====
